---- MODULE Spec2Model ----
(***************************************************************************)
(* PVAnalysis.py: phase-vocoder analysis (PV), partial tracks (RegPartial) *)
(* and the peak-to-partial assignment engine (SinSum).                     *)
(*                                                                         *)
(* Units.  Frequencies and magnitudes are integers.  A pitch threshold     *)
(* (maxpitchjmp) is held in milli-semitones, so the default 0.5 is 500;    *)
(* the source's 17.312 is 17312 and dbconst = 20/ln(10) = 8.6859 is 8686   *)
(* on the same scale.  Comparisons of quotients are cross-multiplied, all  *)
(* denominators being positive (only entries with f > 0 and mag > 0 are    *)
(* ever stored).  Sequences are 1-based: Python's x[k] is x[k+1] here, and *)
(* track numbers are 1-based positions in self.partial.                    *)
(***************************************************************************)
EXTENDS Integers, Sequences, FiniteSets, TLC

VARIABLES
    partial, st, end,   \* the SinSum object: self.partial, self.st, self.end
    call,               \* the last add_frame call (see AddFrame)
    rp,                 \* a stand-alone RegPartial object
    ret,                \* what the last query or synthesis returned or raised
    pv,                 \* the PV object
    pvpc,               \* where run_pv stands
    loc                 \* run_pv's locals: curpos, maxpos, t, allf, allmag, allph

vars == <<partial, st, end, call, rp, ret, pv, pvpc, loc>>

ssVars == <<partial, st, end, call>>

\* ------------------------------------------------------------------ bounds

\* entries per add_frame array (the row width npeaks of run_pv)
MaxPeaks == 3
\* add_frame calls explored per behaviour
MaxCalls == 2
\* frame indices are drawn from 0..MaxFr
MaxFr == 2
\* add_frame calls per behaviour when every frame holds a single entry
MaxSingleCalls == 2

\* points a stand-alone RegPartial is grown to
MaxLen == 3
\* samples in the signal given to PV
MaxSamp == 5
\* iterations of run_pv's loop explored in one run
MaxIter == 3
\* add_frame calls in a run that feeds frames in increasing order
MaxOrderedCalls == 3
\* peaks the peak finder returns for one frame
MaxFramePeaks == 2

\* entries offered to the multi-entry add_frame: 0 is a 'no peak' slot
FrameFreqs == {0, 440}
FrameMags == {0, 1}
Phases == {0}
\* entries offered one per frame; 441/440 is 0.039 semitone, 466/440 is 0.99
SingleFreqs == {440, 441, 453, 466}
SingleMags == {1, 2}
\* thresholds (milli-semitones) passed as maxpitchjmp
PitchJmps == {500, 1000}
\* points given to a stand-alone RegPartial, and the frame it is created at
PointFreqs == {440, 453}
PointMags == {1, 2}
PartialStarts == {0, 2}
\* frames asked of get_freq_at_frame / get_mag_at_frame
QueryFrames == (0 - 2)..(MaxFr + MaxLen)
\* sampling rates and hops passed to synth, hop < sr
SynthRates == {8, 16}
SynthHops == {1, 4}
\* PV(x, sr, nfft, hop, npks): len(x) is 0..MaxSamp; a hop argument is <<h>>,
\* or <<>> for the default None
PVRates == {0 - 2, 0, 2}
PVNffts == {0 - 2, 0, 2, 4}
PVHops == {<<>>, <<0>>, <<1>>, <<2>>}
PVNpks == {1}
\* the peaks calc_pv_frame may report in a frame: (frequency, magnitude, phase)
\* nfft of the PV objects whose frames are analysed one by one, and what
\* dphase2freq may resolve for a peak
FrameNffts == {2, 6, 8}
ResolvedFreqs == {0 - 440, 0, 440, 453}

PVPeakVals == {<<440, 1, 0>>, <<453, 1, 0>>}

\* ------------------------------------------------------------ pure helpers

Abs(x) == IF x < 0 THEN -x ELSE x

SetMax(S) == CHOOSE x \in S : \A y \in S : y <= x

\* 17.312 of dpitch2st, in thousandths
dfconstMilli == 17312
\* dbconst = 20./np.log(10) = 8.68589, in thousandths (rounded)
dbconstMilli == 8686
\* default of the maxpitchjmp parameter (0.5 semitone), in milli-semitones
DefaultMaxPitchJmp == 500

\* line 649 without the abs()
StoneDiffBelowSigned(pf, fc, m) == dfconstMilli * (fc - pf) < m * pf

\* dpitch2st_exact against a threshold of m milli-semitones: 12*log2(hi/lo) > m/1000
\* iff hi/lo > 2^(m/12000).  2^(1/24) = 1.0293022366 and 2^(1/12) = 1.0594630944;
\* the ratios are irrational, and no quotient of two frequencies used here lies
\* within 10^-6 of either, so six decimals decide the comparison.
SemitoneRatioPPM(m) == CASE m = 500 -> 1029302 [] m = 1000 -> 1059463

ExactIntervalAbove(f1, f2, m) ==
    LET hi == IF f1 > f2 THEN f1 ELSE f2
        lo == IF f1 > f2 THEN f2 ELSE f1
    IN  hi * 1000000 > lo * SemitoneRatioPPM(m)

ExactIntervalBelow(f1, f2, m) ==
    LET hi == IF f1 > f2 THEN f1 ELSE f2
        lo == IF f1 > f2 THEN f2 ELSE f1
    IN  hi * 1000000 < lo * (SemitoneRatioPPM(m) + 1)

\* abs(dpitch2st(pf, fc)) < m, i.e. |17.312*(fc/pf - 1)| < m/1000, for pf > 0
StoneDiffBelow(pf, fc, m) == dfconstMilli * Abs(fc - pf) < m * pf

\* ovdiff[i] < ovdiff[j] for two candidate tracks i, j (frequency pf, magnitude
\* pm at the previous frame) against the peak (fc, mc):
\*   ovdiff = |17.312*(fc/pf - 1)| + |dbconst*(pm/mc - 1)|
\* multiplied through by mc*pfi*pfj > 0.
OvDiffLess(pfi, pmi, pfj, pmj, fc, mc) ==
    dfconstMilli * mc * (Abs(fc - pfi) * pfj - Abs(fc - pfj) * pfi)
        < dbconstMilli * (Abs(pmj - mc) - Abs(pmi - mc)) * pfi * pfj

\* ------------------------------------------------------------- RegPartial

\* RegPartial(istart) with pdict None
NewRegPartial(istart) == [start_idx |-> istart, f |-> <<>>, mag |-> <<>>, ph |-> <<>>]

AppendPoint(p, f, mag, ph) ==
    [p EXCEPT !.f = Append(@, f), !.mag = Append(@, mag), !.ph = Append(@, ph)]

PrependPoint(p, f, mag, ph) ==
    [start_idx |-> p.start_idx - 1, f |-> <<f>> \o p.f,
     mag |-> <<mag>> \o p.mag, ph |-> <<ph>> \o p.ph]

\* get_freq_at_frame / get_mag_at_frame on the list xs of a track:
\* NaN below the start, the stored value when the index exists, IndexError
\* when relidx >= len(xs).
GetAtFrame(p, xs, fr) ==
    LET relidx == fr - p.start_idx
    IN  IF relidx >= 0
        THEN IF relidx < Len(xs) THEN [kind |-> "value", val |-> xs[relidx + 1]]
                                 ELSE [kind |-> "IndexError", val |-> 0]
        ELSE [kind |-> "nan", val |-> 0]

GetFreqAtFrame(p, fr) == GetAtFrame(p, p.f, fr)

GetMagAtFrame(p, fr) == GetAtFrame(p, p.mag, fr)

\* np.argmax(xs): the first position (0-based) of the largest element
ArgMax(xs) ==
    (CHOOSE k \in 1..Len(xs) :
        /\ \A j \in 1..Len(xs) : xs[j] <= xs[k]
        /\ \A j \in 1..(k - 1) : xs[j] < xs[k]) - 1

\* hop/sr of lines 525-526 times sr, for hop > 0 and sr > 0.  When both are
\* Python 2 ints the quotient is the floor; when either is a float (or under
\* true division) it is the exact quotient.
PadSamples(sr, hop, truediv) == IF truediv THEN hop ELSE (hop \div sr) * sr

\* RegPartial.synth(sr, hop), as far as sample positions go (the samples
\* themselves, mag*cos(ph), are not modelled):
\*   first   absolute sample index of the first sample, round(tmin*sr)
\*   len     number of samples, round(tmax*sr) - round(tmin*sr)
\*   sref    position in the waveform where the phase is set to phref
\*   spl_st  the second component of the returned pair
RegPartialSynth(p, sr, hop, truediv) ==
    IF Len(p.mag) = 0 THEN [kind |-> "ValueError"]
    ELSE LET iref == ArgMax(p.mag)
             sref == (iref + 1) * hop
             pad == PadSamples(sr, hop, truediv)
             tminsr == (p.start_idx - 1) * hop - pad
             tmaxsr == (p.start_idx - 1 + Len(p.f) + 1) * hop + pad
         IN  IF sref >= tmaxsr - tminsr THEN [kind |-> "IndexError"]
             ELSE [kind |-> "ok", first |-> tminsr, len |-> tmaxsr - tminsr,
                   sref |-> sref, phref |-> p.ph[iref + 1],
                   spl_st |-> (p.start_idx - 1) * hop]

\* ----------------------------------------------------------------- SinSum

\* the SinSum object as one value
SS(pa, s, e) == [partial |-> pa, st |-> s, end |-> e]

EmptySS == SS(<<>>, <<>>, <<>>)

\* add_empty_partial that reuses the last slot of the three lists when there
\* is one, instead of appending
AddEmptyPartialOverwrite(ss, idx) ==
    IF Len(ss.partial) = 0
    THEN SS(<<NewRegPartial(idx)>>, <<idx>>, <<idx>>)
    ELSE SS([ss.partial EXCEPT ![Len(ss.partial)] = NewRegPartial(idx)],
            [ss.st EXCEPT ![Len(ss.st)] = idx], [ss.end EXCEPT ![Len(ss.end)] = idx])

\* add_empty_partial(idx): a new RegPartial at the end of the three lists
AddEmptyPartial(ss, idx) ==
    SS(Append(ss.partial, NewRegPartial(idx)), Append(ss.st, idx), Append(ss.end, idx))

\* get_partials_idx_ending_at_frame(fr): track numbers, ascending
RECURSIVE EndingFrom(_, _, _)
EndingFrom(ss, fr, i) ==
    IF i > Len(ss.st) THEN <<>>
    ELSE (IF fr >= ss.st[i] /\ fr = ss.end[i] THEN <<i>> ELSE <<>>)
         \o EndingFrom(ss, fr, i + 1)

GetPartialsIdxEndingAtFrame(ss, fr) == EndingFrom(ss, fr, 1)

\* np.argsort(mag)[::-1]: positions by descending magnitude; among equal
\* magnitudes the later position first (argsort of a short array is an
\* insertion sort, which keeps equal keys in position order, and the result
\* is reversed).
RECURSIVE DescOrder(_, _)
DescOrder(mag, left) ==
    IF left = {} THEN <<>>
    ELSE LET k == CHOOSE a \in left :
                    \A b \in left : mag[b] < mag[a] \/ (mag[b] = mag[a] /\ b <= a)
         IN  <<k>> \o DescOrder(mag, left \ {k})

\* line 616 with f[idx]>=0 for f[idx]>0
ValidEntryZeroFreq(f, mag, k) == f[k] >= 0 /\ mag[k] > 0

\* the test of line 616 on one entry
ValidEntry(f, mag, k) == f[k] > 0 /\ mag[k] > 0

\* idx of lines 614-616: the sorted positions that pass the test
SortedValidIdx(f, mag) ==
    SelectSeq(DescOrder(mag, DOMAIN mag), LAMBDA k : ValidEntry(f, mag, k))

\* sorted(zip(pmag, pidx), reverse=True): open tracks by descending
\* (magnitude at fr-1, track number)
RECURSIVE SortOpen(_, _)
SortOpen(pm, left) ==
    IF left = {} THEN <<>>
    ELSE LET i == CHOOSE a \in left :
                    \A b \in left : pm[b] < pm[a] \/ (pm[b] = pm[a] /\ b <= a)
         IN  <<i>> \o SortOpen(pm, left \ {i})

\* positions of allpidx still flagged unused, ascending: allpidx[unused]
UnusedPos(unused) == SelectSeq([k \in 1..Len(unused) |-> k], LAMBDA k : unused[k])

\* np.argmin(ovdiff) over the candidates cand (positions into allpidx):
\* the first position of cand whose ovdiff no earlier or later one undercuts
ArgMin(cand, allpf, allpmag, fc, mc) ==
    CHOOSE n \in 1..Len(cand) :
        /\ \A k \in 1..(n - 1) :
              OvDiffLess(allpf[cand[n]], allpmag[cand[n]],
                         allpf[cand[k]], allpmag[cand[k]], fc, mc)
        /\ \A k \in (n + 1)..Len(cand) :
              ~OvDiffLess(allpf[cand[k]], allpmag[cand[k]],
                          allpf[cand[n]], allpmag[cand[n]], fc, mc)

\* unused[nearest] = False (line 662): nearest is the position np.argmin
\* returned, a position in the filtered arrays pidx/pmag/pf
MarkClaimed(unused, nearest) == [unused EXCEPT ![nearest] = FALSE]

\* a new partial at frame fr holding the point, end[-1] = fr
\* (lines 664-665 / 669-670 / 676-677, then 672-673 / 679-680)
StartTrack(ss, fr, fc, mc, pc) ==
    LET a == AddEmptyPartial(ss, fr)
        n == Len(a.partial)
    IN  SS([a.partial EXCEPT ![n] = AppendPoint(@, fc, mc, pc)],
           a.st, [a.end EXCEPT ![n] = fr])

\* part = self.partial[idx]; part.append_point(fc,mc,pc); self.end[idx] = fr
ContinueTrack(ss, idx, fr, fc, mc, pc) ==
    SS([ss.partial EXCEPT ![idx] = AppendPoint(@, fc, mc, pc)],
       ss.st, [ss.end EXCEPT ![idx] = fr])

\* the body of the loop of lines 638-673 for one peak; S holds the SinSum
\* and the unused flags
MatchPeak(S, fr, allpidx, allpf, allpmag, fc, mc, pc, m) ==
    LET cand == UnusedPos(S.unused)
    IN  IF Len(cand) > 0
        THEN LET nearest == ArgMin(cand, allpf, allpmag, fc, mc)
             IN  IF StoneDiffBelow(allpf[cand[nearest]], fc, m)
                 THEN [ss |-> ContinueTrack(S.ss, allpidx[cand[nearest]], fr, fc, mc, pc),
                       unused |-> MarkClaimed(S.unused, nearest)]
                 ELSE [ss |-> StartTrack(S.ss, fr, fc, mc, pc), unused |-> S.unused]
        ELSE [ss |-> StartTrack(S.ss, fr, fc, mc, pc), unused |-> S.unused]

RECURSIVE MatchLoop(_, _, _, _, _, _, _, _, _, _)
MatchLoop(S, fr, allpidx, allpf, allpmag, idx, f, mag, ph, m) ==
    IF idx = <<>> THEN S
    ELSE MatchLoop(MatchPeak(S, fr, allpidx, allpf, allpmag,
                             f[Head(idx)], mag[Head(idx)], ph[Head(idx)], m),
                   fr, allpidx, allpf, allpmag, Tail(idx), f, mag, ph, m)

\* the else branch of line 674: every peak starts a track
RECURSIVE StartAll(_, _, _, _, _, _)
StartAll(ss, fr, idx, f, mag, ph) ==
    IF idx = <<>> THEN ss
    ELSE StartAll(StartTrack(ss, fr, f[Head(idx)], mag[Head(idx)], ph[Head(idx)]),
                  fr, Tail(idx), f, mag, ph)

\* SinSum.add_frame(fr, f, mag, ph, maxpitchjmp = m)
AddFrameOp(ss, fr, f, mag, ph, m) ==
    LET idx == SortedValidIdx(f, mag)
        pidx == GetPartialsIdxEndingAtFrame(ss, fr - 1)
    IN  IF Len(pidx) > 0
        THEN LET open == {pidx[k] : k \in 1..Len(pidx)}
                 pm == [ii \in open |-> GetMagAtFrame(ss.partial[ii], fr - 1).val]
                 allpidx == SortOpen(pm, open)
                 allpmag == [k \in 1..Len(allpidx) |-> pm[allpidx[k]]]
                 allpf == [k \in 1..Len(allpidx) |->
                              GetFreqAtFrame(ss.partial[allpidx[k]], fr - 1).val]
                 unused == [k \in 1..Len(allpidx) |-> TRUE]
             IN  MatchLoop([ss |-> ss, unused |-> unused], fr, allpidx, allpf,
                           allpmag, idx, f, mag, ph, m).ss
        ELSE StartAll(ss, fr, idx, f, mag, ph)

\* len(w[a:b]) for an array of n elements and 0 <= a <= b
SliceLen(n, a, b) ==
    (IF b < n THEN b ELSE n) - (IF a < n THEN a ELSE n)

\* the first track from i on whose synthesis or whose addition into w fails
\* is the error of the call; the tracks before it are added without one
RECURSIVE SynthFrom(_, _, _, _, _, _)
SynthFrom(ss, i, wlen, sr, hop, truediv) ==
    IF i > Len(ss.partial) THEN [kind |-> "ok", len |-> wlen]
    ELSE LET r == RegPartialSynth(ss.partial[i], sr, hop, truediv)
         IN  IF r.kind # "ok" THEN [kind |-> r.kind, len |-> 0]
             ELSE IF r.spl_st >= 0
                      /\ r.len # 1
                      /\ SliceLen(wlen, r.spl_st, r.spl_st + r.len) # r.len
             THEN [kind |-> "ValueError", len |-> 0]
             ELSE SynthFrom(ss, i + 1, wlen, sr, hop, truediv)

\* SinSum.synth(sr, hop): the exception raised, or the length of w returned
SinSumSynth(ss, sr, hop, truediv) ==
    IF Len(ss.end) = 0 THEN [kind |-> "ValueError", len |-> 0]
    ELSE LET wlen == (SetMax({ss.end[i] : i \in 1..Len(ss.end)}) + 1) * hop
         IN  IF wlen < 0 THEN [kind |-> "ValueError", len |-> 0]
             ELSE SynthFrom(ss, 1, wlen, sr, hop, truediv)

\* ---------------------------------------------------------------- actions

\* number of entries the caller passed with f > 0 and mag > 0
CountPositive(f, mag) == Cardinality({k \in DOMAIN f : f[k] > 0 /\ mag[k] > 0})

TotalPoints(pa) ==
    LET RECURSIVE Sum(_)
        Sum(i) == IF i > Len(pa) THEN 0 ELSE Len(pa[i].f) + Sum(i + 1)
    IN  Sum(1)

FrameArrays(S) == [1..MaxPeaks -> S]

\* what call holds: the number of the call, the frame index and threshold
\* passed, how many entries of the arrays passed were positive in both f and
\* mag, and how many points the SinSum stored before the call
CallRecord(n, fr, m, f, mag) ==
    [n |-> n, fr |-> fr, m |-> m, npos |-> CountPositive(f, mag),
     before |-> TotalPoints(partial)]

\* ss.add_frame(fr, f, mag, ph, maxpitchjmp = m) on the SinSum of the state
DoAddFrame(fr, f, mag, ph, m) ==
    /\ \E r \in {AddFrameOp(SS(partial, st, end), fr, f, mag, ph, m)} :
           /\ partial' = r.partial
           /\ st' = r.st
           /\ end' = r.end
    /\ call' = CallRecord(call.n + 1, fr, m, f, mag)

\* a call ss.add_frame(fr, f, mag, ph): maxpitchjmp takes its default
AddFrame(fr, f, mag, ph) ==
    /\ call.n < MaxCalls
    /\ DoAddFrame(fr, f, mag, ph, DefaultMaxPitchJmp)
    /\ ret' = [op |-> "none"]
    /\ UNCHANGED <<rp, pv, pvpc, loc>>

\* a call ss.add_frame(fr, [f], [mag], [ph], maxpitchjmp = m): one entry
AddFrameSingle(fr, f, mag, ph, m) ==
    /\ call.n < MaxSingleCalls
    /\ DoAddFrame(fr, <<f>>, <<mag>>, <<ph>>, m)
    /\ ret' = [op |-> "none"]
    /\ UNCHANGED <<rp, pv, pvpc, loc>>

NoCall == [n |-> 0, fr |-> 0, m |-> DefaultMaxPitchJmp, npos |-> 0, before |-> 0]

NoRet == [op |-> "none"]

\* run_pv is not running: its locals do not exist
NoLoc == [curpos |-> 0, maxpos |-> 0, t |-> <<>>, allf |-> <<>>, allmag |-> <<>>,
          allph |-> <<>>]

\* SinSum(sr, nfft, hop): no partials (lines 551-555); nothing else exists yet
Init ==
    /\ partial = <<>>
    /\ st = <<>>
    /\ end = <<>>
    /\ call = NoCall
    /\ rp = NewRegPartial(0)
    /\ ret = NoRet
    /\ pv = [state |-> "none"]
    /\ pvpc = "idle"
    /\ loc = NoLoc

Next ==
    \E fr \in 0..MaxFr, f \in FrameArrays(FrameFreqs), mag \in FrameArrays(FrameMags),
       ph \in FrameArrays(Phases) :
        AddFrame(fr, f, mag, ph)

\* a SinSum fed whole frames in any order of frame index
Spec == Init /\ [][Next]_vars

NextSingle ==
    \E fr \in 0..MaxFr, f \in SingleFreqs, mag \in SingleMags, ph \in Phases,
       m \in PitchJmps :
        AddFrameSingle(fr, f, mag, ph, m)

\* a SinSum fed one peak per frame, with a caller-chosen threshold
SpecSingle == Init /\ [][NextSingle]_vars

\* a call ss.add_frame(fr, f, mag, ph) with fr above every frame fed before,
\* as the loop of toSinSum (lines 243-244) feeds them
AddFrameInOrder(fr, f, mag, ph) ==
    /\ call.n < MaxOrderedCalls
    /\ call.n = 0 \/ fr > call.fr
    /\ DoAddFrame(fr, f, mag, ph, DefaultMaxPitchJmp)
    /\ ret' = [op |-> "none"]
    /\ UNCHANGED <<rp, pv, pvpc, loc>>

NextOrdered ==
    \E fr \in 0..MaxFr, f \in FrameArrays(FrameFreqs), mag \in FrameArrays(FrameMags),
       ph \in FrameArrays(Phases) :
        AddFrameInOrder(fr, f, mag, ph)

\* a SinSum fed whole frames in strictly increasing order of frame index
SpecOrdered == Init /\ [][NextOrdered]_vars

\* ss.synth(sr, hop); truediv says whether hop/sr is a true division
Synth(sr, hop, truediv) ==
    /\ ret' = [op |-> "SinSum.synth", sr |-> sr, hop |-> hop, truediv |-> truediv,
               res |-> SinSumSynth(SS(partial, st, end), sr, hop, truediv)]
    /\ UNCHANGED <<partial, st, end, call, rp, pv, pvpc, loc>>

NextSynth ==
    \/ \E fr \in 0..MaxFr, f \in FrameArrays(FrameFreqs), mag \in FrameArrays(FrameMags),
          ph \in FrameArrays(Phases) :
           AddFrame(fr, f, mag, ph)
    \/ \E sr \in SynthRates, hop \in SynthHops, truediv \in BOOLEAN :
           Synth(sr, hop, truediv)

\* a SinSum fed whole frames and resynthesised at any point
SpecSynth == Init /\ [][NextSynth]_vars

\* part.append_point(f, mag, ph) on the stand-alone RegPartial
RPAppend(f, mag, ph) ==
    /\ Len(rp.f) < MaxLen
    /\ rp' = AppendPoint(rp, f, mag, ph)
    /\ ret' = [op |-> "none"]
    /\ UNCHANGED <<partial, st, end, call, pv, pvpc, loc>>

\* part.prepend_point(f, mag, ph)
RPPrepend(f, mag, ph) ==
    /\ Len(rp.f) < MaxLen
    /\ rp' = PrependPoint(rp, f, mag, ph)
    /\ ret' = [op |-> "none"]
    /\ UNCHANGED <<partial, st, end, call, pv, pvpc, loc>>

\* part.get_freq_at_frame(fr)
RPGetFreq(fr) ==
    /\ ret' = [op |-> "get_freq_at_frame", fr |-> fr, res |-> GetFreqAtFrame(rp, fr)]
    /\ UNCHANGED <<partial, st, end, call, rp, pv, pvpc, loc>>

\* part.get_mag_at_frame(fr)
RPGetMag(fr) ==
    /\ ret' = [op |-> "get_mag_at_frame", fr |-> fr, res |-> GetMagAtFrame(rp, fr)]
    /\ UNCHANGED <<partial, st, end, call, rp, pv, pvpc, loc>>

\* part.synth(sr, hop)
RPSynth(sr, hop, truediv) ==
    /\ ret' = [op |-> "RegPartial.synth", sr |-> sr, hop |-> hop, truediv |-> truediv,
               res |-> RegPartialSynth(rp, sr, hop, truediv)]
    /\ UNCHANGED <<partial, st, end, call, rp, pv, pvpc, loc>>

\* RegPartial(istart) for some istart, nothing else in use
InitPartial ==
    /\ partial = <<>>
    /\ st = <<>>
    /\ end = <<>>
    /\ call = NoCall
    /\ rp \in {NewRegPartial(istart) : istart \in PartialStarts}
    /\ ret = NoRet
    /\ pv = [state |-> "none"]
    /\ pvpc = "idle"
    /\ loc = NoLoc

NextPartial ==
    \/ \E f \in PointFreqs, mag \in PointMags, ph \in Phases : RPAppend(f, mag, ph)
    \/ \E f \in PointFreqs, mag \in PointMags, ph \in Phases : RPPrepend(f, mag, ph)
    \/ \E fr \in QueryFrames : RPGetFreq(fr)
    \/ \E fr \in QueryFrames : RPGetMag(fr)
    \/ \E sr \in SynthRates, hop \in SynthHops, truediv \in BOOLEAN :
           RPSynth(sr, hop, truediv)

\* one RegPartial grown at either end, queried and resynthesised
SpecPartial == InitPartial /\ [][NextPartial]_vars

\* --------------------------------------------------------------------- PV

\* PV.__init__(x, sr, nfft, hop, npks) with len(x) = nsamp, under Python 2
\* (nfft/2 is the floor).  float(sr)/float(nfft) raises ZeroDivisionError for
\* nfft = 0, float(hop)/float(sr) raises it for sr = 0, and
\* np.zeros(nfft/2) raises ValueError for nfft < 0.  Nothing else is checked.
\* oldfft is <<>> for the zeros of line 111 and <<pos>> for the spectrum of the
\* frame at pos.
PVInit(nsamp, sr, nfft, hop, npks) ==
    LET nfft2 == nfft \div 2
        thehop == IF hop = <<>> THEN nfft \div 2 ELSE hop[1]
    IN  IF nfft = 0 THEN [state |-> "error", exc |-> "ZeroDivisionError"]
        ELSE IF sr = 0 THEN [state |-> "error", exc |-> "ZeroDivisionError"]
        ELSE IF nfft2 < 0 THEN [state |-> "error", exc |-> "ValueError"]
        ELSE [state |-> "ok", nsamp |-> nsamp, sr |-> sr, nfft |-> nfft,
              nfft2 |-> nfft2, hop |-> thehop, npeaks |-> npks, nframes |-> 0,
              oldfft |-> <<>>, t |-> <<>>, f |-> <<>>, mag |-> <<>>, ph |-> <<>>]

\* what calc_pv_frame may return: at most npks peaks, as the peak finder
\* returns at most npeaks bins and peaks of non-positive frequency are dropped
RECURSIVE PeakLists(_)
PeakLists(n) ==
    IF n = 0 THEN {<<>>}
    ELSE PeakLists(n - 1) \cup
         {Append(l, pk) : l \in {x \in PeakLists(n - 1) : Len(x) = n - 1}, pk \in PVPeakVals}

\* f = np.zeros(npeaks); f[0:len(ff)] = ff  (lines 198-206), for component c
\* of the peaks
PadRow(peaks, c, npks) ==
    [k \in 1..npks |-> IF k <= Len(peaks) THEN peaks[k][c] ELSE 0]

\* PV(x, sr, nfft, hop, npks)
Construct(nsamp, sr, nfft, hop, npks) ==
    /\ pv.state = "none"
    /\ pv' = PVInit(nsamp, sr, nfft, hop, npks)
    /\ ret' = [op |-> "PV"]
    /\ UNCHANGED <<partial, st, end, call, rp, pvpc, loc>>

\* run_pv, lines 190-196
RunPvBegin ==
    /\ pv.state = "ok"
    /\ pvpc = "idle"
    /\ pvpc' = "loop"
    /\ loc' = [curpos |-> 0, maxpos |-> pv.nsamp - pv.nfft, t |-> <<>>,
               allf |-> <<>>, allmag |-> <<>>, allph |-> <<>>]
    /\ ret' = [op |-> "none"]
    /\ UNCHANGED <<partial, st, end, call, rp, pv>>

\* the condition of line 197
LoopCondition(curpos, maxpos) == curpos < maxpos

\* one iteration of the loop, lines 198-214; peaks is what calc_pv_frame
\* returned for the frame at curpos, which becomes the retained old frame
RunPvIter(peaks) ==
    /\ pvpc = "loop"
    /\ LoopCondition(loc.curpos, loc.maxpos)
    /\ Len(loc.t) < MaxIter
    /\ loc' = [curpos |-> loc.curpos + pv.hop, maxpos |-> loc.maxpos,
               t |-> Append(loc.t, <<2 * loc.curpos + pv.nfft, 2 * pv.sr>>),
               allf |-> Append(loc.allf, PadRow(peaks, 1, pv.npeaks)),
               allmag |-> Append(loc.allmag, PadRow(peaks, 2, pv.npeaks)),
               allph |-> Append(loc.allph, PadRow(peaks, 3, pv.npeaks))]
    /\ pv' = [pv EXCEPT !.oldfft = <<loc.curpos>>]
    /\ UNCHANGED <<partial, st, end, call, rp, ret, pvpc>>

\* the loop is left, lines 216-221
RunPvEnd ==
    /\ pvpc = "loop"
    /\ ~LoopCondition(loc.curpos, loc.maxpos)
    /\ pv' = [pv EXCEPT !.f = loc.allf, !.mag = loc.allmag, !.ph = loc.allph,
                        !.t = loc.t, !.nframes = Len(loc.t)]
    /\ pvpc' = "idle"
    /\ loc' = NoLoc
    /\ ret' = [op |-> "run_pv"]
    /\ UNCHANGED <<partial, st, end, call, rp>>

\* ss.add_frame(fr, F[fr,:], M[fr,:], P[fr,:], maxpitchjmp = m) for fr = from ..
\* nframes - 1, in order
RECURSIVE FeedFrames(_, _, _, _)
FeedFrames(ss, p, from, m) ==
    IF from >= p.nframes THEN ss
    ELSE FeedFrames(AddFrameOp(ss, from, p.f[from + 1], p.mag[from + 1], p.ph[from + 1], m),
                    p, from + 1, m)

\* PV.toSinSum(maxpitchjmp): line 244 calls add_frame without maxpitchjmp
ToSinSumOp(p, maxpitchjmp) == FeedFrames(EmptySS, p, 0, DefaultMaxPitchJmp)

\* ss = pv.toSinSum(maxpitchjmp = m); the SinSum returned becomes the state's
ToSinSum(m) ==
    /\ pv.state = "ok"
    /\ pvpc = "idle"
    /\ \E r \in {ToSinSumOp(pv, m)} :
           /\ partial' = r.partial
           /\ st' = r.st
           /\ end' = r.end
    /\ ret' = [op |-> "toSinSum", maxpitchjmp |-> m]
    /\ UNCHANGED <<call, rp, pv, pvpc, loc>>

NextPV ==
    \/ \E nsamp \in 0..MaxSamp, sr \in PVRates, nfft \in PVNffts, hop \in PVHops,
          npks \in PVNpks :
           Construct(nsamp, sr, nfft, hop, npks)
    \/ RunPvBegin
    \/ pvpc = "loop" /\ \E peaks \in PeakLists(pv.npeaks) : RunPvIter(peaks)
    \/ RunPvEnd
    \/ \E m \in PitchJmps : ToSinSum(m)

\* one PV object: constructed, run (any number of times), converted
SpecPV == Init /\ [][NextPV]_vars

\* famp[imin:imax+1] of lines 178-180 for a peak at nbin, as the set of bins
\* summed; n = len(famp) = nfft2, wd = 1
MagBins(nbin, n) ==
    LET imin == IF nbin - 1 > 1 THEN nbin - 1 ELSE 1
        imax == IF nbin + 1 < n THEN nbin + 1 ELSE n
    IN  {i \in 0..(n - 1) : imin <= i /\ i < imax + 1}

\* the loop of lines 169-183 over the peak bins pk, freq[k] being what
\* dphase2freq resolves for pk[k]: the lists f, mag (as the bins summed) and
\* ph returned, and bin, the peak bin each returned entry belongs to
RECURSIVE PeakLoop(_, _, _, _, _)
PeakLoop(R, pk, freq, k, n) ==
    IF k > Len(pk) THEN R
    ELSE PeakLoop(IF freq[k] > 0
                  THEN [f |-> Append(R.f, freq[k]),
                        mag |-> Append(R.mag, MagBins(pk[k], n)),
                        ph |-> Append(R.ph, 0),
                        bin |-> Append(R.bin, pk[k])]
                  ELSE R,
                  pk, freq, k + 1, n)

\* what pkf.get_pos() may return for a half-spectrum of n bins: up to
\* MaxFramePeaks distinct bins
RECURSIVE PeakBins(_, _)
PeakBins(n, len) ==
    IF len = 0 THEN {<<>>}
    ELSE PeakBins(n, len - 1) \cup
         {Append(l, b) : l \in {x \in PeakBins(n, len - 1) : Len(x) = len - 1},
                         b \in 0..(n - 1)}

\* pv.calc_pv_frame(pos), the peak finder returning pk and dphase2freq
\* resolving freq: returns f, mag, ph and retains the spectrum of this frame
CalcPvFrame(pos, pk, freq) ==
    /\ pv.state = "ok"
    /\ ret' = [op |-> "calc_pv_frame", pos |-> pos, nfft2 |-> pv.nfft2,
               res |-> PeakLoop([f |-> <<>>, mag |-> <<>>, ph |-> <<>>, bin |-> <<>>],
                                pk, freq, 1, pv.nfft2)]
    /\ pv' = [pv EXCEPT !.oldfft = <<pos>>]
    /\ UNCHANGED <<partial, st, end, call, rp, pvpc, loc>>

\* PV(x, sr, nfft) for some nfft, with len(x) = nfft + 1, nothing else in use
InitFrame ==
    /\ partial = <<>>
    /\ st = <<>>
    /\ end = <<>>
    /\ call = NoCall
    /\ rp = NewRegPartial(0)
    /\ ret = NoRet
    /\ pv \in {PVInit(nfft + 1, 2, nfft, <<>>, MaxFramePeaks) : nfft \in FrameNffts}
    /\ pvpc = "idle"
    /\ loc = NoLoc

NextFrame ==
    \E pos \in 0..(pv.nsamp - pv.nfft), pk \in PeakBins(pv.nfft2, MaxFramePeaks) :
        \E freq \in [1..Len(pk) -> ResolvedFreqs] :
            /\ \A a, b \in 1..Len(pk) : a # b => pk[a] # pk[b]
            /\ CalcPvFrame(pos, pk, freq)

\* one PV object whose frames are analysed one at a time
SpecFrame == InitFrame /\ [][NextFrame]_vars

\* ------------------------------------------------------------------ claims

\* C1: after any sequence of add_frame calls every track i has
\* end[i] - st[i] + 1 = len(f) = len(mag) = len(ph) and end[i] >= st[i].
C1_TrackSpanEqualsLength ==
    \A i \in 1..Len(partial) :
        /\ end[i] - st[i] + 1 = Len(partial[i].f)
        /\ Len(partial[i].f) = Len(partial[i].mag)
        /\ Len(partial[i].mag) = Len(partial[i].ph)
        /\ end[i] >= st[i]

\* C2: within one add_frame call no track receives more than one point.
C2_OnePointPerTrackPerCall ==
    [][\A i \in 1..Len(partial) : Len(partial'[i].f) <= Len(partial[i].f) + 1]_vars

\* C9: one add_frame call adds as many points as there are entries with f > 0
\* and mag > 0, and every stored point has f > 0 and mag > 0.
C9_OnlyPositiveEntriesStored ==
    /\ TotalPoints(partial) = call.before + call.npos
    /\ \A i \in 1..Len(partial) : \A k \in 1..Len(partial[i].f) :
           partial[i].f[k] > 0 /\ partial[i].mag[k] > 0

\* a second call that found points stored, kept some entries and dropped others
C9_Witness ==
    /\ call.n = 2
    /\ call.before > 0
    /\ call.npos > 0
    /\ call.npos < MaxPeaks
    /\ TotalPoints(partial) = call.before + call.npos

\* the step is an add_frame call given exactly one positive entry that found
\* exactly one track open at fr - 1
OneOpenOnePeak ==
    /\ call'.n = call.n + 1
    /\ call'.npos = 1
    /\ Len(GetPartialsIdxEndingAtFrame(SS(partial, st, end), call'.fr - 1)) = 1

\* that track, and its frequency at fr - 1
OpenTrack == GetPartialsIdxEndingAtFrame(SS(partial, st, end), call'.fr - 1)[1]

FOld == GetFreqAtFrame(partial[OpenTrack], call'.fr - 1).val

\* the step started a track at fr and left the open one as it was
StartedNew ==
    /\ Len(partial') = Len(partial) + 1
    /\ st'[Len(partial')] = call'.fr
    /\ Len(partial'[Len(partial')].f) = 1
    /\ partial'[OpenTrack] = partial[OpenTrack]

\* the step appended one point to the open track and started nothing
AppendedToOpen ==
    /\ Len(partial') = Len(partial)
    /\ Len(partial'[OpenTrack].f) = Len(partial[OpenTrack].f) + 1
    /\ end'[OpenTrack] = call'.fr

\* the frequency of the point the step stored
FNew ==
    IF Len(partial') > Len(partial) THEN partial'[Len(partial')].f[1]
    ELSE partial'[OpenTrack].f[Len(partial'[OpenTrack].f)]

\* C3 as stated: one open track at f_old, one valid peak f_new, threshold m:
\* an interval of more than m semitones starts a new track, one of less than
\* m semitones continues the open track.
C3_SemitoneBoundary ==
    [][OneOpenOnePeak =>
          /\ ExactIntervalAbove(FOld, FNew, call'.m) => StartedNew
          /\ ExactIntervalBelow(FOld, FNew, call'.m) => AppendedToOpen]_vars

\* C3 amended: the boundary is that of the linearised distance
\* 17.312*|f_new/f_old - 1|: below m the open track is continued, at or above
\* m a new track starts at fr; at m = 0.5, 440 -> 441 continues and
\* 440 -> 466 starts a new track.
C3_LinearisedBoundary ==
    [][OneOpenOnePeak =>
          /\ dfconstMilli * Abs(FNew - FOld) >= call'.m * FOld => StartedNew
          /\ dfconstMilli * Abs(FNew - FOld) < call'.m * FOld => AppendedToOpen
          /\ (FOld = 440 /\ FNew = 441 /\ call'.m = 500) => AppendedToOpen
          /\ (FOld = 440 /\ FNew = 466 /\ call'.m = 500) => StartedNew]_vars

\* a track at 453 Hz continued by a 440 Hz peak at threshold 0.5: the interval
\* is 0.504 semitone, its linearised distance 0.497
C3_Witness ==
    /\ call.n = 2
    /\ call.m = 500
    /\ Len(partial) = 1
    /\ partial[1].f = <<453, 440>>

\* the frames the stand-alone track covers: start_idx .. start_idx + len - 1
InRange(fr) == rp.start_idx <= fr /\ fr <= rp.start_idx + Len(rp.f) - 1

\* C7: get_freq_at_frame(fr) and get_mag_at_frame(fr) return the NaN sentinel
\* for fr outside [start, end] on either side, and the stored value inside
\* (stated for a track that holds at least one point).
C7_OutOfRangeIsNaN ==
    Len(rp.f) > 0 =>
    /\ ret.op = "get_freq_at_frame" =>
          IF InRange(ret.fr)
          THEN ret.res = [kind |-> "value", val |-> rp.f[ret.fr - rp.start_idx + 1]]
          ELSE ret.res.kind = "nan"
    /\ ret.op = "get_mag_at_frame" =>
          IF InRange(ret.fr)
          THEN ret.res = [kind |-> "value", val |-> rp.mag[ret.fr - rp.start_idx + 1]]
          ELSE ret.res.kind = "nan"

\* C8: SinSum.synth returns a buffer of (maxEndFrame + 1) * hop samples, and a
\* zero-length one, without an error, when there are no tracks.
C8_SynthLength ==
    ret.op = "SinSum.synth" =>
        /\ ret.res.kind = "ok"
        /\ ret.res.len = IF Len(end) = 0 THEN 0
                         ELSE (SetMax({end[i] : i \in 1..Len(end)}) + 1) * ret.hop

\* C10: RegPartial.synth returns the sample index at which its waveform
\* begins, (start_idx - 1) * hop; the waveform runs from one hop before the
\* track's start to one hop after its end; the phase is locked at the sample
\* of the frame of largest magnitude.
C10_SynthPlacement ==
    (ret.op = "RegPartial.synth" /\ ret.res.kind = "ok") =>
        /\ ret.res.spl_st = (rp.start_idx - 1) * ret.hop
        /\ ret.res.first = ret.res.spl_st
        /\ ret.res.first + ret.res.len = (rp.start_idx + Len(rp.f)) * ret.hop
        /\ ret.res.first + ret.res.sref = (rp.start_idx + ArgMax(rp.mag)) * ret.hop
        /\ ret.res.phref = rp.ph[ArgMax(rp.mag) + 1]

\* C4: toSinSum(maxpitchjmp = m) gives what add_frame(fr, ..., maxpitchjmp = m)
\* for fr = 0 .. nframes - 1 in order gives.
C4_ToSinSumUsesThreshold ==
    ret.op = "toSinSum" =>
        SS(partial, st, end) = FeedFrames(EmptySS, pv, 0, ret.maxpitchjmp)

\* C5: a finished run_pv (hop > 0) holds one time entry (position + nfft/2)/sr
\* per position 0, hop, 2*hop, ... with position + nfft <= nsamp, in order:
\* floor((nsamp - nfft)/hop) + 1 of them when nsamp >= nfft.
C5_FramePositions ==
    (ret.op = "run_pv" /\ pv.hop > 0) =>
        /\ pv.nframes = Len(pv.t)
        /\ pv.nframes = IF pv.nsamp >= pv.nfft
                        THEN (pv.nsamp - pv.nfft) \div pv.hop + 1 ELSE 0
        /\ \A k \in 1..Len(pv.t) :
               pv.t[k] = <<2 * ((k - 1) * pv.hop) + pv.nfft, 2 * pv.sr>>

\* C6: no PV object with sr <= 0, nfft <= 0 or hop <= 0 is ever constructed,
\* and run_pv's loop is never entered with hop <= 0.
C6_InvalidConfigurationRejected ==
    /\ pv.state = "ok" => (pv.sr > 0 /\ pv.nfft > 0 /\ pv.hop > 0)
    /\ pvpc = "loop" => pv.hop > 0

\* track i of the state is the same track after the step
TrackUntouched(i) ==
    /\ partial'[i] = partial[i]
    /\ st'[i] = st[i]
    /\ end'[i] = end[i]

\* track i kept its start and its points and got more points at the end
TrackExtended(i) ==
    /\ st'[i] = st[i]
    /\ partial'[i].start_idx = partial[i].start_idx
    /\ Len(partial'[i].f) >= Len(partial[i].f)
    /\ SubSeq(partial'[i].f, 1, Len(partial[i].f)) = partial[i].f
    /\ SubSeq(partial'[i].mag, 1, Len(partial[i].mag)) = partial[i].mag
    /\ SubSeq(partial'[i].ph, 1, Len(partial[i].ph)) = partial[i].ph

\* C11: with frames fed in strictly increasing order, add_frame(fr) removes
\* no track, only appends to tracks whose end was fr - 1 and leaves every
\* other track (start, end, points) as it was; a track that got no point at
\* the last frame fed is not modified by any later add_frame.
C11_ContiguousContinuation ==
    [][/\ Len(partial') >= Len(partial)
       /\ Len(st') = Len(partial') /\ Len(end') = Len(partial')
       /\ \A i \in 1..Len(partial) :
              /\ end[i] # call'.fr - 1 => TrackUntouched(i)
              /\ end[i] = call'.fr - 1 => TrackExtended(i)
              /\ (call.n > 0 /\ end[i] < call.fr) => TrackUntouched(i)]_vars

\* three frames fed in order: track 1 started at frame 0 and got nothing at
\* frame 1 nor at frame 2, track 2 was continued at frames 1 and 2, and a
\* third track started at frame 2
C11_Witness ==
    /\ call.n = 3
    /\ call.fr = 2
    /\ Len(partial) = 3
    /\ st = <<0, 0, 2>>
    /\ end = <<0, 2, 2>>
    /\ Len(partial[1].f) = 1
    /\ Len(partial[2].f) = 3

\* the tracks open at fr - 1 when the add_frame call of the step began
OpenBefore ==
    LET pidx == GetPartialsIdxEndingAtFrame(SS(partial, st, end), call'.fr - 1)
    IN  {pidx[k] : k \in 1..Len(pidx)}

\* the frequencies of the points the step stored, in old and in new tracks
StoredFreqs ==
    UNION {{partial'[i].f[k] : k \in (Len(partial[i].f) + 1)..Len(partial'[i].f)} :
              i \in 1..Len(partial)}
    \cup UNION {{partial'[i].f[k] : k \in 1..Len(partial'[i].f)} :
                   i \in (Len(partial) + 1)..Len(partial')}

\* every peak of the step is within the threshold of every open track
AllWithinThreshold ==
    \A i \in OpenBefore : \A fc \in StoredFreqs :
        StoneDiffBelow(GetFreqAtFrame(partial[i], call'.fr - 1).val, fc, call'.m)

\* the open tracks the step gave at least one point
ExtendedOpen == {i \in OpenBefore : Len(partial'[i].f) > Len(partial[i].f)}

\* C12: each peak is matched against exactly the open tracks not yet given a
\* peak in this call, and a track is opened only when none is left or the
\* nearest is not within the threshold.  When every peak is within the
\* threshold of every open track, the k valid peaks therefore extend
\* min(k, #open) distinct open tracks and open max(0, k - #open) new ones.
C12_CandidatesAreUnclaimedOpenTracks ==
    [][(call'.n = call.n + 1 /\ AllWithinThreshold) =>
          LET k == call'.npos
              n == Cardinality(OpenBefore)
          IN  /\ Cardinality(ExtendedOpen) = IF k < n THEN k ELSE n
              /\ Len(partial') - Len(partial) = IF k > n THEN k - n ELSE 0]_vars

\* C13: whenever run_pv is about to compute the phase differences of the
\* frame at position p (the loop is entered with curpos = p), the retained
\* spectrum is that of the frame at p - hop of the same run, the first frame
\* of a run and of a second run included (stated for sr > 0 and hop > 0).
C13_RetainedSpectrumIsPreviousFrame ==
    (pvpc = "loop" /\ LoopCondition(loc.curpos, loc.maxpos)
        /\ pv.sr > 0 /\ pv.hop > 0) =>
        pv.oldfft = <<loc.curpos - pv.hop>>

\* C14: every peak calc_pv_frame reports at bin b has its magnitude summed
\* over {b-1, b, b+1} restricted to the bins 0 .. nfft/2 - 1, which contains
\* b; f, mag and ph have equal length and every f is > 0.
C14_MagnitudeBinsCentredOnPeak ==
    ret.op = "calc_pv_frame" =>
        /\ Len(ret.res.f) = Len(ret.res.mag)
        /\ Len(ret.res.mag) = Len(ret.res.ph)
        /\ \A k \in 1..Len(ret.res.f) :
               /\ ret.res.f[k] > 0
               /\ ret.res.bin[k] \in ret.res.mag[k]
               /\ ret.res.mag[k] =
                      {ret.res.bin[k] - 1, ret.res.bin[k], ret.res.bin[k] + 1}
                          \cap (0..(ret.nfft2 - 1))

====
